---- MODULE Spec2Model ----
(***************************************************************************)
(* Model of the Twilio media-stream bridge of webhook_server.py: the       *)
(* media_stream WebSocket handler (receive loop, start/media/stop          *)
(* dispatch, room connect / publish / capture / disconnect awaits), the    *)
(* egress relay tasks stream_agent_audio_to_twilio, and the process-wide   *)
(* active_calls registry with the HTTP handlers that touch it.             *)
(*                                                                         *)
(* asyncio is single-threaded and cooperative: every action below is the   *)
(* code that runs between two await points of one coroutine.               *)
(***************************************************************************)
EXTENDS Integers, Sequences, FiniteSets, TLC

\* ------------------------------------------------------------------ bounds

\* events the outside world delivers to one connection before the model
\* stops feeding it: wire signals received, remote tracks subscribed and room
\* frames delivered to its relay tasks
MaxEvents == 4

\* In the two-connection specification: how many of them the two
\* connections take together.
MaxPairEvents == 3

\* HTTP requests a watched client makes
MaxRequests == 3

\* the sessions of the long run of SpecMonitor, and the create_session
\* calls of SpecArchive
MaxSessions == 102

MaxCreates == 4

\* ------------------------------------------------------- values and codecs

None == "None"

CallIds == {"CA1", "CA2"}

\* Python's default for an object without __bool__/__len__, and for str/None
Truthy(v) == v # None /\ v # ""

\* 2^n for the small shifts of the G.711 tables
RECURSIVE Pow2(_)
Pow2(n) == IF n = 0 THEN 1 ELSE 2 * Pow2(n - 1)

\* audioop.ulaw2lin, width 2: one mu-law byte to one int16 sample
\* (audioop's st_ulaw2linear16: complement, split sign/segment/mantissa)
ulaw2lin_sample(b) ==
    LET u    == 255 - b
        seg  == (u \div 16) % 8
        mant == u % 16
        t    == ((mant * 8) + 132) * Pow2(seg)
    IN  IF u >= 128 THEN 132 - t ELSE t - 132

ulaw2lin(bytes) == [i \in 1..Len(bytes) |-> ulaw2lin_sample(bytes[i])]

\* base64 text is a sequence of alphabet indices 0..63; 64 is the pad "="
PadChar == 64

\* binascii.a2b_base64 in its default non-strict mode, as base64.b64decode
\* calls it: quad_pos/leftchar/pads are the decoder's loop state.
RECURSIVE a2b_loop(_, _, _, _, _, _)
a2b_loop(chars, i, quad_pos, leftchar, pads, out) ==
    IF i > Len(chars)
    THEN [ok |-> quad_pos = 0, data |-> out]
    ELSE LET ch == chars[i] IN
         IF ch = PadChar
         THEN IF quad_pos >= 2 /\ quad_pos + pads + 1 >= 4
              THEN [ok |-> TRUE, data |-> out]
              ELSE a2b_loop(chars, i + 1, quad_pos, leftchar,
                            IF quad_pos >= 2 THEN pads + 1 ELSE pads, out)
         ELSE CASE quad_pos = 0 ->
                     a2b_loop(chars, i + 1, 1, ch, 0, out)
                [] quad_pos = 1 ->
                     a2b_loop(chars, i + 1, 2, ch % 16, 0,
                              Append(out, (leftchar * 4) + (ch \div 16)))
                [] quad_pos = 2 ->
                     a2b_loop(chars, i + 1, 3, ch % 4, 0,
                              Append(out, (leftchar * 16) + (ch \div 4)))
                [] OTHER ->
                     a2b_loop(chars, i + 1, 0, 0, 0,
                              Append(out, (leftchar * 64) + ch))

\* base64.b64decode(media_payload): a non-str argument raises TypeError,
\* bad padding raises binascii.Error; both are ok = FALSE here
b64decode(payload) ==
    IF payload.shape # "string"
    THEN [ok |-> FALSE, data |-> <<>>]
    ELSE a2b_loop(payload.chars, 1, 0, 0, 0, <<>>)

\* ------------------------------------------------------------ wire signals

\* The value of data.get("media", {}).get("payload")
NoPayload == [shape |-> "absent", chars |-> <<>>]
StrPayload(cs) == [shape |-> "string", chars |-> cs]
NumPayload == [shape |-> "number", chars |-> <<>>]

\* "/w==" (one byte 0xFF, mu-law silence) and "gA==" (one byte 0x80)
PayloadFF == StrPayload(<<63, 48, 64, 64>>)
Payload80 == StrPayload(<<32, 0, 64, 64>>)
\* "/w": two data characters and no padding
PayloadBadPad == StrPayload(<<63, 48>>)
PayloadEmpty == StrPayload(<<>>)

Payloads == {PayloadFF, Payload80, PayloadBadPad, PayloadEmpty, NumPayload}

\* if media_payload:
PayloadTruthy(p) == p.shape = "number" \/ (p.shape = "string" /\ Len(p.chars) > 0)

NoParams == [shape |-> "absent", roomName |-> None, fromNumber |-> None]
NoStart == [shape |-> "absent", callSid |-> None, params |-> NoParams]
NoMedia == [shape |-> "absent", payload |-> NoPayload]

\* incoming_call's room_name = f"call-{call_sid}" (line 77), which Twilio
\* hands back in the start signal's customParameters
RoomNameOf(cid) == IF cid = "CA1" THEN "call-CA1" ELSE "call-CA2"

\* One text frame whose JSON is an object
Signal(ev, sid, st, md) ==
    [kind |-> "object", event |-> ev, streamSid |-> sid, start |-> st, media |-> md]

StartSignal(sid, cid) ==
    Signal("start", sid,
           [shape |-> "object", callSid |-> cid,
            params |-> [shape |-> "object", roomName |-> RoomNameOf(cid),
                        fromNumber |-> "+1555"]],
           NoMedia)

StartSignals ==
    { StartSignal("MZ1", "CA1"),
      StartSignal("MZ2", "CA2"),
      \* a start object without callSid and without customParameters
      Signal("start", "MZ1", [NoStart EXCEPT !.shape = "object"], NoMedia),
      \* "start" is not an object
      Signal("start", "MZ1", [NoStart EXCEPT !.shape = "scalar"], NoMedia),
      \* "customParameters" is not an object
      Signal("start", "MZ1",
             [shape |-> "object", callSid |-> "CA1",
              params |-> [NoParams EXCEPT !.shape = "scalar"]], NoMedia) }

MediaSignals ==
    { Signal("media", "MZ1", NoStart, [shape |-> "object", payload |-> p]) : p \in Payloads }
    \cup { Signal("media", "MZ1", NoStart, NoMedia),
           Signal("media", "MZ1", NoStart, [NoMedia EXCEPT !.shape = "scalar"]) }

StopSignal == Signal("stop", "MZ1", NoStart, NoMedia)
MarkSignal == Signal("mark", "MZ1", NoStart, NoMedia)

\* a text frame that is not JSON, one whose JSON is not an object, and a
\* binary frame (receive_text finds no "text" key)
InvalidJson == [Signal(None, None, NoStart, NoMedia) EXCEPT !.kind = "invalid_json"]
ScalarJson == [Signal(None, None, NoStart, NoMedia) EXCEPT !.kind = "scalar_json"]
BinaryFrame == [Signal(None, None, NoStart, NoMedia) EXCEPT !.kind = "binary"]

WireSignals ==
    StartSignals \cup MediaSignals
    \cup {StopSignal, MarkSignal, InvalidJson, ScalarJson, BinaryFrame}

IsValidMedia(m) ==
    /\ m.kind = "object" /\ m.event = "media" /\ m.media.shape = "object"
    /\ PayloadTruthy(m.media.payload)
    /\ b64decode(m.media.payload).ok

\* ------------------------------------------------------------------- state

VARIABLES
    \* webhook_server.active_calls: the process-wide set of call identifiers
    active_calls,
    \* one record per accepted /media-stream connection: the locals of its
    \* media_stream coroutine, the Room objects it created, the relay tasks
    \* it spawned, and what it has done so far (observable effects)
    conn,
    \* the exchange of the HTTP client that is being watched, if one is
    http_log,
    \* performance_monitor.global_monitor: the PerformanceMonitor object
    global_monitor,
    \* the module config: the environment it is imported in, what the import
    \* did and what a call of Config.validate() did
    config

vars == <<active_calls, conn, http_log, global_monitor, config>>

Conns == DOMAIN conn

\* Added as an insertion that loses what the registry held, as a write
\* based on a stale copy would.  C20 does not hold of it.
Added_Lost(registry, cid) == {cid}

\* active_calls.add(call_sid) (line 74)
Added(registry, cid) == registry \cup {cid}

\* active_calls.discard(call_sid) (lines 301, 320)
Removed(registry, cid) == registry \ {cid}

\* A Room object as this process sees it
NewRoom(name, identity) ==
    [name |-> name, identity |-> identity, state |-> "new",
     published |-> FALSE, handler |-> FALSE, disconnects |-> 0]

\* The coroutine right after websocket.accept() (lines 132-138)
NewSession ==
    [pc |-> "recv",
     call_sid |-> None, room_name |-> None, stream_sid |-> "unbound",
     room |-> 0, audio_source |-> 0,
     rooms |-> <<>>,
     ws_open |-> TRUE,
     pending |-> <<>>,
     tracks |-> <<>>,
     \* effects, in the order they happened
     captured |-> <<>>, outbound |-> <<>>,
     \* how the receive loop was left: none, stop, disconnect, error
     exit_cause |-> "none",
     \* bookkeeping of what the coroutine has executed
     nevents |-> 0, nrecv |-> 0, last |-> "none",
     connect_calls |-> 0, disconnect_calls |-> 0, discard_calls |-> 0,
     \* the valid media payloads received while bridging, in arrival order
     media_log |-> <<>>,
     \* frames the room port did not take, and the ingress drop counter
     \* (no statement of media_stream counts a drop: it stays 0)
     capture_errors |-> 0, drop_counter |-> 0,
     start_failed |-> FALSE, failed_at |-> 0]

\* The exchange of an HTTP client that is being watched: how many requests
\* it has made, the last one, the registry as its handler found it and the
\* response it got.  Unwatched: no client is watched and nothing is recorded.
Unwatched ==
    [on |-> FALSE, n |-> 0, op |-> "none", cid |-> None, status |-> None,
     base |-> None, found |-> {}, response |-> [kind |-> "none"]]

Watched == [Unwatched EXCEPT !.on = TRUE]

\* the seven variables Config.validate requires, in the order of its list
\* (config.py lines 72-80)
required_vars ==
    <<"TWILIO_ACCOUNT_SID", "TWILIO_AUTH_TOKEN", "TWILIO_PHONE_NUMBER",
      "LIVEKIT_URL", "LIVEKIT_API_KEY", "LIVEKIT_API_SECRET", "OPENAI_API_KEY">>

RequiredNames == { required_vars[i] : i \in 1..Len(required_vars) }

\* what os.getenv gives for a variable: None when it is unset, the empty
\* string, a blank, or a value
EnvValues == {None, "", " ", "value"}

\* an environment: the seven variables, and whether WEBHOOK_PORT and
\* MAX_CONCURRENT_CALLS, if set, are integers
Envs == [vars : [RequiredNames -> EnvValues], ints_ok : BOOLEAN]

DefaultEnv == [vars |-> [v \in RequiredNames |-> "value"], ints_ok |-> TRUE]

NoCall == [called |-> FALSE, raised |-> FALSE, exc |-> "none",
           message |-> <<>>, returned |-> FALSE]

\* the module config before it is imported in environment env
NotImported(env) ==
    [env |-> env, pc |-> "start", attrs |-> <<>>, import_exc |-> "none",
     printed |-> <<>>, call |-> NoCall]

\* PerformanceMonitor() (performance_monitor.py lines 55-58): no session, no
\* history; created and ended are the record of the calls made so far, the
\* session ids given to create_session and the metrics archived, in order
NewMonitor ==
    [sessions |-> <<>>, historical_metrics |-> <<>>,
     created |-> <<>>, ended |-> <<>>]

Init ==
    /\ active_calls = {}
    /\ conn = [c \in {"ws1"} |-> NewSession]
    /\ http_log = Unwatched
    /\ global_monitor = NewMonitor
    /\ config = NotImported(DefaultEnv)

\* ------------------------------------------------ media_stream: teardown

\* lines 300-302: if call_sid: active_calls.discard(call_sid); the coroutine
\* returns and the server closes the socket
Cleanup(s) ==
    [s EXCEPT !.pc = "done", !.ws_open = FALSE,
              !.discard_calls = IF Truthy(s.call_sid) THEN @ + 1 ELSE @]

\* LeaveLoop without its break: the cause is noted and the loop keeps
\* receiving.  C4 does not hold of it.
LeaveLoop_NoBreak(s, cause) ==
    [s EXCEPT !.exit_cause = cause, !.pending = <<>>, !.pc = "recv"]

\* LeaveLoop without the test of room: the finally block awaits a disconnect
\* whether or not a room was ever created.
LeaveLoop_Unguarded(s, cause) ==
    [s EXCEPT !.exit_cause = cause, !.pending = <<>>,
              !.pc = "disconnect", !.disconnect_calls = @ + 1]

\* break out of the receive loop into the finally block (lines 294-297):
\* if room: await room.disconnect()
LeaveLoop(s, cause) ==
    LET t == [s EXCEPT !.exit_cause = cause, !.pending = <<>>] IN
    IF t.room # 0
    THEN [t EXCEPT !.pc = "disconnect", !.disconnect_calls = @ + 1,
                   !.rooms[t.room].disconnects = @ + 1]
    ELSE Cleanup(t)

\* except Exception as e: logger.error(...); break  (lines 290-292)
OnException(s) == LeaveLoop(s, "error")

\* OnStartException as the silent-degrade variant: the failure is logged and
\* the loop keeps receiving.  C3 does not hold of it.
OnStartException_Degrade(s) ==
    [s EXCEPT !.start_failed = TRUE, !.failed_at = Len(s.captured), !.pc = "recv"]

\* an exception while the start branch runs (lines 148-197)
OnStartException(s) ==
    OnException([s EXCEPT !.start_failed = TRUE,
                          !.failed_at = Len(s.captured)])

\* ------------------------------------------- media_stream: receive loop

\* event_type == "start", up to the first await (lines 148-177)
OnStart(s, m) ==
    LET s1 == [s EXCEPT !.stream_sid = m.streamSid] IN
    IF m.start.shape = "scalar"
    THEN OnStartException(s1)
    ELSE LET s2 == [s1 EXCEPT !.call_sid = m.start.callSid] IN
         IF m.start.shape = "object" /\ m.start.params.shape = "scalar"
         THEN OnStartException(s2)
         ELSE LET s3 == [s2 EXCEPT !.room_name = m.start.params.roomName]
                  r  == NewRoom(m.start.params.roomName, m.start.params.fromNumber)
              IN  [s3 EXCEPT !.rooms = Append(@, r),
                             !.room = Len(s3.rooms) + 1,
                             !.connect_calls = @ + 1,
                             !.pc = "connect"]

\* OnMedia without the test of audio_source: a media signal is decoded and
\* submitted whether or not a start signal came before it.
OnMedia_Unguarded(s, m) ==
    IF m.media.shape = "scalar"
    THEN OnException(s)
    ELSE IF ~PayloadTruthy(m.media.payload)
    THEN s
    ELSE LET d == b64decode(m.media.payload) IN
         IF ~d.ok
         THEN s
         ELSE [s EXCEPT !.pc = "capture",
                        !.pending = ulaw2lin(d.data)]

\* event_type == "media" (lines 250-278), up to await capture_frame
OnMedia(s, m) ==
    IF s.audio_source = 0
    THEN s
    ELSE IF m.media.shape = "scalar"
    THEN OnException(s)
    ELSE IF ~PayloadTruthy(m.media.payload)
    THEN s
    ELSE LET d == b64decode(m.media.payload) IN
         IF ~d.ok
         THEN s
         ELSE [s EXCEPT !.pc = "capture",
                        !.pending = ulaw2lin(d.data)]

\* OnJSONDecodeError without its own except clause: the error reaches the
\* generic handler and ends the loop.  C5 does not hold of it.
OnJSONDecodeError_Break(s) == OnException(s)

\* except json.JSONDecodeError as e: logger.error(...); continue
\* (lines 284-286)
OnJSONDecodeError(s) == s

\* One pass of the while True body after receive_text returned m
\* (lines 144-292)
Dispatch(s, m) ==
    CASE m.kind = "binary" -> OnException(s)
      [] m.kind = "invalid_json" -> OnJSONDecodeError(s)
      [] m.kind = "scalar_json" -> OnException(s)
      [] OTHER ->
           CASE m.event = "start" -> OnStart(s, m)
             [] m.event = "media" -> OnMedia(s, m)
             [] m.event = "stop" -> LeaveLoop(s, "stop")
             [] OTHER -> s

\* The session state of the design's state machine, read off the coroutine:
\* the start transition is complete once the track_subscribed handler is
\* registered (the last statement of the start branch); a session that
\* leaves the loop before that is aborting and goes to CLOSED.
Bridged(s) == \E i \in 1..Len(s.rooms) : s.rooms[i].handler

SessionState(s) ==
    CASE s.pc = "done" -> "CLOSED"
      [] s.pc = "disconnect" /\ Bridged(s) -> "STOPPING"
      [] s.pc # "disconnect" /\ Bridged(s) -> "BRIDGING"
      [] OTHER -> "AWAITING_START"

\* what kind of wire signal m is, for the record of what was received
SignalClass(m) ==
    CASE m.kind = "invalid_json" -> "invalid_json"
      [] m.kind = "object" /\ m.event = "media" /\ ~IsValidMedia(m) -> "bad_media"
      [] m.kind = "object" /\ m.event = "media" -> "media"
      [] OTHER -> "other"

\* the record of signal m arriving at session s
Received(s, m) ==
    [s EXCEPT !.nevents = @ + 1, !.nrecv = @ + 1, !.last = SignalClass(m),
              !.media_log = IF IsValidMedia(m) /\ SessionState(s) = "BRIDGING"
                            THEN Append(@, m.media.payload) ELSE @]

\* Discarded with the whole registry emptied, as active_calls.clear() in
\* place of the discard would.  C19 does not hold of it.
Discarded_Clear(old, new) ==
    IF new.discard_calls > old.discard_calls THEN {} ELSE active_calls

\* active_calls after a step of connection c: line 301 ran iff the step
\* counted a discard
Discarded(old, new) ==
    IF new.discard_calls > old.discard_calls
    THEN Removed(active_calls, new.call_sid)
    ELSE active_calls

\* message = await websocket.receive_text() returns the next wire signal
receive_text(c, m) ==
    /\ UNCHANGED <<http_log, global_monitor, config>>
    /\ conn[c].pc = "recv"
    /\ conn[c].nevents < MaxEvents
    /\ LET s == Dispatch(Received(conn[c], m), m) IN
       /\ conn' = [conn EXCEPT ![c] = s]
       /\ active_calls' = Discarded(conn[c], s)

\* receive_text raises WebSocketDisconnect: the peer closed (lines 287-289)
WebSocketDisconnect(c) ==
    /\ UNCHANGED <<http_log, global_monitor, config>>
    /\ conn[c].pc = "recv"
    /\ LET s == LeaveLoop([conn[c] EXCEPT !.ws_open = FALSE, !.last = "close"],
                          "disconnect") IN
       /\ conn' = [conn EXCEPT ![c] = s]
       /\ active_calls' = Discarded(conn[c], s)

\* ---------------------------------------------- media_stream: the awaits

\* OnConnected with the track_subscribed handler registered as soon as the
\* room is connected, ahead of the publication.
OnConnected_HandlerFirst(s) ==
    [s EXCEPT !.rooms[s.room].state = "connected",
              !.rooms[s.room].handler = TRUE,
              !.audio_source = s.room,
              !.pc = "publish"]

\* room.connect returned: audio_source = rtc.AudioSource(8000, 1), up to
\* await publish_track (lines 177-187)
OnConnected(s) ==
    [s EXCEPT !.rooms[s.room].state = "connected",
              !.audio_source = s.room,
              !.pc = "publish"]

\* await room.connect(...) returns or raises (lines 177-185)
connect_done(c, ok) ==
    /\ UNCHANGED <<http_log, global_monitor, config>>
    /\ conn[c].pc = "connect"
    /\ LET s == conn[c]
           t == IF ok THEN OnConnected(s) ELSE OnStartException(s)
       IN /\ conn' = [conn EXCEPT ![c] = t]
          /\ active_calls' = Discarded(s, t)

\* publish_track returned: @room.on("track_subscribed") registers the
\* handler and the loop goes on (lines 187-197)
OnPublished(s) ==
    [s EXCEPT !.rooms[s.room].published = TRUE,
              !.rooms[s.room].handler = TRUE,
              !.pc = "recv"]

\* await room.local_participant.publish_track(...) returns or raises
\* (lines 187-197)
publish_done(c, ok) ==
    /\ UNCHANGED <<http_log, global_monitor, config>>
    /\ conn[c].pc = "publish"
    /\ LET s == conn[c]
           t == IF ok THEN OnPublished(s) ELSE OnStartException(s)
       IN /\ conn' = [conn EXCEPT ![c] = t]
          /\ active_calls' = Discarded(s, t)

\* except Exception as e: logger.error("Error processing incoming audio")
\* (lines 277-278): the frame is lost, nothing is counted
OnCaptureError(s) ==
    [s EXCEPT !.capture_errors = @ + 1, !.pending = <<>>, !.pc = "recv"]

\* OnCaptured with the frame put ahead of the earlier ones, as submissions
\* completing out of order would.  C9 does not hold of it.
OnCaptured_Reordered(s) ==
    [s EXCEPT !.captured = <<[source |-> s.audio_source,
                              sample_rate |-> 8000,
                              num_channels |-> 1,
                              data |-> s.pending]>> \o @,
              !.pending = <<>>,
              !.pc = "recv"]

\* capture_frame returned: the frame is in the synthetic track (line 275)
OnCaptured(s) ==
    [s EXCEPT !.captured = Append(@, [source |-> s.audio_source,
                                      sample_rate |-> 8000,
                                      num_channels |-> 1,
                                      data |-> s.pending]),
              !.pending = <<>>,
              !.pc = "recv"]

\* await audio_source.capture_frame(audio_frame) returns or raises
\* (lines 275-278)
capture_done(c, ok) ==
    /\ UNCHANGED <<http_log, global_monitor, config>>
    /\ conn[c].pc = "capture"
    /\ LET s == conn[c]
           t == IF ok THEN OnCaptured(s) ELSE OnCaptureError(s)
       IN /\ conn' = [conn EXCEPT ![c] = t]
          /\ UNCHANGED active_calls

\* await room.disconnect() returns, then lines 298-302 run; or it raises
\* and the exception leaves the coroutine past lines 300-302.  A Room that
\* never connected has nothing to release and returns at once.
disconnect_done(c, ok) ==
    /\ UNCHANGED <<http_log, global_monitor, config>>
    /\ conn[c].pc = "disconnect"
    /\ LET s == conn[c] IN
       /\ ok \/ s.rooms[s.room].state = "connected"
       /\ LET t == IF ok
                   THEN Cleanup([s EXCEPT !.rooms[s.room].state =
                                    IF @ = "connected" THEN "disconnected" ELSE @])
                   ELSE [s EXCEPT !.pc = "done", !.ws_open = FALSE]
          IN /\ conn' = [conn EXCEPT ![c] = t]
             /\ active_calls' = Discarded(s, t)

\* ------------------------------------------------------------ egress codecs

RECURSIVE Gcd(_, _)
Gcd(a, b) == IF b = 0 THEN a ELSE Gcd(b, a % b)

\* audioop.ratecv(fragment, 2, nchannels, inrate, outrate, state) with the
\* default weights 1, 0.  st = [d, prev, cur].  audioop keeps prev and cur
\* shifted left by 16 (GETSAMPLE32) and stores the top 16 bits of
\* (int)((prev*d + cur*(outrate-d)) / outrate) (SETSAMPLE32); with the low 16
\* bits of prev and cur zero that is the floor of the unshifted quotient, so
\* prev and cur are held unshifted here.
RECURSIVE ratecv_loop(_, _, _, _, _, _, _)
ratecv_loop(data, pos, nch, inrate, outrate, st, out) ==
    IF st.d < 0
    THEN IF pos * nch > Len(data)
         THEN [ok |-> TRUE, data |-> out, state |-> st]
         ELSE ratecv_loop(data, pos + 1, nch, inrate, outrate,
                  [d |-> st.d + outrate,
                   prev |-> st.cur,
                   cur |-> [ch \in 1..nch |-> data[(pos - 1) * nch + ch]]],
                  out)
    ELSE ratecv_loop(data, pos, nch, inrate, outrate,
             [st EXCEPT !.d = @ - inrate],
             out \o [ch \in 1..nch |->
                       (st.prev[ch] * st.d + st.cur[ch] * (outrate - st.d))
                           \div outrate])

\* the state argument None
NoState == [d |-> 0, prev |-> <<>>, cur |-> <<>>]

\* state = None: d = -outrate and zeroed history
ratecv_fresh(nch, outrate) ==
    [d |-> -outrate, prev |-> [ch \in 1..nch |-> 0], cur |-> [ch \in 1..nch |-> 0]]

ratecv(data, nch, inrate, outrate, state) ==
    IF nch < 1 \/ inrate <= 0 \/ outrate <= 0 \/ Len(data) % nch # 0
    THEN [ok |-> FALSE, data |-> <<>>, state |-> state]
    ELSE LET g == Gcd(inrate, outrate) IN
         ratecv_loop(data, 1, nch, inrate \div g, outrate \div g,
                     IF state = NoState THEN ratecv_fresh(nch, outrate \div g) ELSE state,
                     <<>>)

\* audioop's fbound for width 2
Clip16(v) == IF v > 32767 THEN 32767 ELSE IF v < -32768 THEN -32768 ELSE v

\* audioop.tomono(fragment, 2, lfactor, rfactor)
tomono(data, lfactor, rfactor) ==
    IF Len(data) % 2 # 0
    THEN [ok |-> FALSE, data |-> <<>>]
    ELSE [ok |-> TRUE,
          data |-> [i \in 1..(Len(data) \div 2) |->
                      Clip16(data[2 * i - 1] * lfactor + data[2 * i] * rfactor)]]

\* lin2ulaw_sample without the bias of 33 that centres the segments.  C22
\* does not hold of it.
lin2ulaw_sample_NoBias(v) ==
    LET p14  == v \div 4
        mag0 == IF p14 < 0 THEN -p14 ELSE p14
        mag  == IF mag0 > 8159 THEN 8159 ELSE mag0
        seg  == CHOOSE k \in 0..8 :
                   /\ k = 8 \/ mag <= 64 * Pow2(k) - 1
                   /\ \A j \in 0..(k - 1) : mag > 64 * Pow2(j) - 1
        uval == IF seg >= 8 THEN 127
                ELSE seg * 16 + ((mag \div Pow2(seg + 1)) % 16)
    IN  IF p14 < 0 THEN 127 - uval ELSE 255 - uval

\* audioop's st_14linear2ulaw applied to sample >> 2
lin2ulaw_sample(v) ==
    LET p14  == v \div 4
        mag0 == IF p14 < 0 THEN -p14 ELSE p14
        mag  == (IF mag0 > 8159 THEN 8159 ELSE mag0) + 33
        seg  == CHOOSE k \in 0..8 :
                   /\ k = 8 \/ mag <= 64 * Pow2(k) - 1
                   /\ \A j \in 0..(k - 1) : mag > 64 * Pow2(j) - 1
        uval == IF seg >= 8 THEN 127
                ELSE seg * 16 + ((mag \div Pow2(seg + 1)) % 16)
    IN  IF p14 < 0 THEN 127 - uval ELSE 255 - uval

lin2ulaw(data) == [i \in 1..Len(data) |-> lin2ulaw_sample(data[i])]

\* base64.b64encode: three bytes to four alphabet indices, padded with "="
RECURSIVE b64encode(_)
b64encode(bytes) ==
    IF Len(bytes) = 0 THEN <<>>
    ELSE IF Len(bytes) = 1
    THEN <<bytes[1] \div 4, (bytes[1] % 4) * 16, PadChar, PadChar>>
    ELSE IF Len(bytes) = 2
    THEN <<bytes[1] \div 4, (bytes[1] % 4) * 16 + (bytes[2] \div 16),
           (bytes[2] % 16) * 4, PadChar>>
    ELSE <<bytes[1] \div 4, (bytes[1] % 4) * 16 + (bytes[2] \div 16),
           (bytes[2] % 16) * 4 + (bytes[3] \div 64), bytes[3] % 64>>
         \o b64encode(SubSeq(bytes, 4, Len(bytes)))

\* ------------------------------------------------------ egress relay task

\* frames the room transport may deliver on a remote audio track
RoomFrame(rate, nch, data) == [sample_rate |-> rate, num_channels |-> nch, data |-> data]

RoomFrames ==
    { RoomFrame(8000, 1, <<1000, -1000>>),
      RoomFrame(48000, 1, <<100, 200, 300, 400, 500, 600>>),
      \* a frame that is not a whole number of 8000 Hz sample periods
      RoomFrame(48000, 1, <<100, 200, 300, 400>>),
      RoomFrame(8000, 2, <<1000, 3000>>),
      \* a frame no stage can process: ratecv rejects a rate of 0
      RoomFrame(0, 1, <<0>>) }

\* the state argument of the ratecv call: the literal None, for every frame
\* (line 220)
RatecvStateArg == NoState

\* lines 214-222: pcm_data, _ = audioop.ratecv(pcm_data, 2,
\* frame.num_channels, frame.sample_rate, 8000, None); the returned state is
\* bound to _ and not used again
Resampled(frame) ==
    ratecv(frame.data, frame.num_channels, frame.sample_rate, 8000, RatecvStateArg)

\* what the task has of its last ratecv call after taking frame: nothing
\* when the frame was at 8000 Hz already
RatecvCall(frame) ==
    IF frame.sample_rate # 8000
    THEN <<[frame |-> frame, nchannels |-> frame.num_channels,
            state_in |-> RatecvStateArg, res |-> Resampled(frame)]>>
    ELSE <<>>

\* EgressMessage with the fold ahead of the resampling, which then runs on
\* one channel.
EgressMessage_FoldFirst(frame, stream_sid) ==
    LET mn == IF frame.num_channels = 2 THEN tomono(frame.data, 1, 1)
              ELSE [ok |-> TRUE, data |-> frame.data]
        rs == IF ~mn.ok THEN [ok |-> FALSE, data |-> <<>>]
              ELSE IF frame.sample_rate # 8000
              THEN ratecv(mn.data, 1, frame.sample_rate, 8000, RatecvStateArg)
              ELSE [ok |-> TRUE, data |-> mn.data]
    IN  IF ~rs.ok
        THEN [ok |-> FALSE, msg |-> <<>>]
        ELSE [ok |-> TRUE,
              msg |-> [event |-> "media", streamSid |-> stream_sid,
                       payload |-> b64encode(lin2ulaw(rs.data))]]

\* lines 207-241: one room frame to one outbound media signal, or an
\* exception raised by one of the stages
EgressMessage(frame, stream_sid) ==
    LET rs == IF frame.sample_rate # 8000
              THEN Resampled(frame)
              ELSE [ok |-> TRUE, data |-> frame.data, state |-> NoState]
        mn == IF ~rs.ok THEN [ok |-> FALSE, data |-> <<>>]
              ELSE IF frame.num_channels = 2 THEN tomono(rs.data, 1, 1)
              ELSE [ok |-> TRUE, data |-> rs.data]
    IN  IF ~mn.ok
        THEN [ok |-> FALSE, msg |-> <<>>]
        ELSE [ok |-> TRUE,
              msg |-> [event |-> "media", streamSid |-> stream_sid,
                       payload |-> b64encode(lin2ulaw(mn.data))]]

\* NewTrack without the test of track.kind: a task for every track.
NewTrack_AnyKind(s, r, kind) ==
    [room |-> r, kind |-> kind,
     task |-> IF s.rooms[r].handler THEN "iter" ELSE "none",
     stream_sid |-> s.stream_sid,
     msg |-> <<>>, consumed |-> 0, skipped |-> 0,
     taken |-> <<>>, ratecv_call |-> <<>>]

\* on_track_subscribed (lines 191-196): only a room whose handler is
\* registered hears the event; an audio track gets a task running
\* stream_agent_audio_to_twilio(track, stream_sid, websocket)
NewTrack(s, r, kind) ==
    [room |-> r, kind |-> kind,
     task |-> IF s.rooms[r].handler /\ kind = "audio" THEN "iter" ELSE "none",
     stream_sid |-> s.stream_sid,
     msg |-> <<>>, consumed |-> 0, skipped |-> 0,
     \* the frame taken last, and the ratecv call made on it, if one was made
     taken |-> <<>>, ratecv_call |-> <<>>]

TrackKinds == {"audio", "video"}

\* the room emits track_subscribed for a newly subscribed remote track
track_subscribed(c, r, kind) ==
    /\ UNCHANGED <<http_log, global_monitor, config>>
    /\ r \in 1..Len(conn[c].rooms)
    /\ conn[c].rooms[r].state = "connected"
    /\ conn[c].nevents < MaxEvents
    /\ conn' = [conn EXCEPT ![c].tracks = Append(@, NewTrack(conn[c], r, kind)),
                            ![c].nevents = @ + 1]
    /\ UNCHANGED active_calls

\* OnFrameError without the inner try: the exception reaches the outer
\* handler (lines 247-248) and the task returns.  C10 does not hold of it.
OnFrameError_Exit(tr) == [tr EXCEPT !.task = "done", !.msg = <<>>, !.skipped = @ + 1]

\* except Exception as e: logger.error("Error processing audio frame")
\* (lines 244-245): the frame is skipped and the async for goes on
OnFrameError(tr) == [tr EXCEPT !.task = "iter", !.msg = <<>>, !.skipped = @ + 1]

\* send_text returned: back to the async for (line 242, then line 204)
OnFrameSent(tr) == [tr EXCEPT !.task = "iter", !.msg = <<>>]

\* async for audio_frame_event in audio_stream yields the next frame; the
\* body runs up to await ws.send_text (lines 204-242)
relay_frame(c, t, f) ==
    /\ UNCHANGED <<http_log, global_monitor, config>>
    /\ t \in 1..Len(conn[c].tracks)
    /\ LET s == conn[c]
           tr == s.tracks[t]
       IN /\ tr.task = "iter"
          /\ s.rooms[tr.room].state = "connected"
          /\ s.nevents < MaxEvents
          /\ LET e == EgressMessage(f, tr.stream_sid)
                 tr1 == [tr EXCEPT !.consumed = @ + 1,
                                   !.taken = <<f>>,
                                   !.ratecv_call = RatecvCall(f)]
                 tr2 == IF e.ok
                        THEN [tr1 EXCEPT !.task = "send", !.msg = e.msg]
                        ELSE OnFrameError(tr1)
             IN conn' = [conn EXCEPT ![c].tracks[t] = tr2, ![c].nevents = @ + 1]
    /\ UNCHANGED active_calls

\* Written with the signal put ahead of what was written before, as writes
\* overtaking each other would.  C13 does not hold of it.
Written_Overtaking(outbound, t, tr) ==
    <<[msg |-> tr.msg, track |-> t, frame |-> tr.consumed]>> \o outbound

\* what is on the socket after task t wrote its signal: the signal of the
\* frame it took last, behind everything written before (line 242)
Written(outbound, t, tr) ==
    Append(outbound, [msg |-> tr.msg, track |-> t, frame |-> tr.consumed])

\* await ws.send_text(json.dumps(media_msg)) returns or raises (line 242);
\* it always raises once the socket is closed
relay_send(c, t, ok) ==
    /\ UNCHANGED <<http_log, global_monitor, config>>
    /\ t \in 1..Len(conn[c].tracks)
    /\ LET s == conn[c]
           tr == s.tracks[t]
       IN /\ tr.task = "send"
          /\ ok => s.ws_open
          /\ conn' = [conn EXCEPT
                 ![c].tracks[t] = IF ok THEN OnFrameSent(tr) ELSE OnFrameError(tr),
                 ![c].outbound = IF ok THEN Written(@, t, tr) ELSE @]
    /\ UNCHANGED active_calls

\* the audio stream of a released room ends: the async for is exhausted and
\* the task returns (lines 204, 247-248)
relay_end(c, t) ==
    /\ UNCHANGED <<http_log, global_monitor, config>>
    /\ t \in 1..Len(conn[c].tracks)
    /\ conn[c].tracks[t].task = "iter"
    /\ conn[c].rooms[conn[c].tracks[t].room].state # "connected"
    /\ conn' = [conn EXCEPT ![c].tracks[t].task = "done"]
    /\ UNCHANGED active_calls

\* ---------------------------------------------------------- HTTP handlers

\* the request and its response as the watched client has them
Exchange(op, cid, status, base, response) ==
    IF http_log.on
    THEN [on |-> TRUE, n |-> http_log.n + 1, op |-> op, cid |-> cid,
          status |-> status, base |-> base, found |-> active_calls,
          response |-> response]
    ELSE http_log

\* a watched client makes at most MaxRequests requests
CanRequest == http_log.on => http_log.n < MaxRequests

\* The text of a call identifier, character by character.  "CA&3" is an
\* identifier with a character that XML reserves.
HttpCallIds == CallIds \cup {"CA&3"}

Text(cid) ==
    CASE cid = "CA1" -> <<"C", "A", "1">>
      [] cid = "CA2" -> <<"C", "A", "2">>
      [] cid = "CA&3" -> <<"C", "A", "&", "3">>
      [] OTHER -> <<"N", "o", "n", "e">>

\* request.url.scheme and request.url.netloc of the requests the endpoint
\* gets: http://a.io, https://a.io and https://httpd.io
BaseUrl(scheme, netloc) == [scheme |-> scheme, netloc |-> netloc]

HomeUrl == BaseUrl(<<"h", "t", "t", "p", "s">>, <<"a", ".", "i", "o">>)

BaseUrls ==
    { BaseUrl(<<"h", "t", "t", "p">>, <<"a", ".", "i", "o">>),
      HomeUrl,
      BaseUrl(<<"h", "t", "t", "p", "s">>, <<"h", "t", "t", "p", "d", ".", "i", "o">>) }

\* str.replace(old, new): every non-overlapping occurrence, left to right
RECURSIVE Replace(_, _, _)
Replace(str, old, new) ==
    IF Len(str) < Len(old) THEN str
    ELSE IF SubSeq(str, 1, Len(old)) = old
    THEN new \o Replace(SubSeq(str, Len(old) + 1, Len(str)), old, new)
    ELSE <<str[1]>> \o Replace(Tail(str), old, new)

\* lines 84-85: webhook_base_url = scheme + "://" + netloc;
\* stream_url = webhook_base_url.replace('http', 'ws') + "/media-stream"
StreamUrl(base) ==
    Replace(base.scheme \o <<":", "/", "/">> \o base.netloc,
            <<"h", "t", "t", "p">>, <<"w", "s">>)
        \o <<"/", "m", "e", "d", "i", "a", "-", "s", "t", "r", "e", "a", "m">>

\* the TwiML of lines 91-100: a Stream element whose url attribute and
\* Parameter values are the texts the f-string puts between the quotes,
\* as they are
TwiML(cid, from_number, base) ==
    [kind |-> "twiml",
     url |-> StreamUrl(base),
     callSid |-> Text(cid),
     roomName |-> <<"c", "a", "l", "l", "-">> \o Text(cid),
     fromNumber |-> from_number]

\* the error TwiML of lines 114-118: Say and Hangup, no Stream
ErrorTwiML == [kind |-> "error_twiml"]

\* POST /incoming-call (lines 58-123): await request.form() returns and
\* active_calls.add(call_sid) runs, then the TwiML response; or it raises
\* and the error TwiML is returned
incoming_call(cid, base, ok) ==
    /\ CanRequest
    /\ active_calls' = IF ok THEN Added(active_calls, cid) ELSE active_calls
    /\ http_log' = Exchange("incoming_call", cid, None, base,
                            IF ok
                            THEN TwiML(cid, <<"+", "1", "5", "5", "5">>, base)
                            ELSE ErrorTwiML)
    /\ UNCHANGED <<conn, global_monitor, config>>

\* TerminalStatuses without the last status of the list.
TerminalStatuses_NoCanceled == {"completed", "failed", "busy", "no-answer"}

TerminalStatuses == {"completed", "failed", "busy", "no-answer", "canceled"}

\* what the handler has of a form it could not read
Unread == "unread"

\* CallStatusResponse with the exception of the handler left to the
\* framework, which answers 500.
CallStatusResponse_Propagated(ok) ==
    IF ok THEN [kind |-> "text", text |-> "OK"]
    ELSE [kind |-> "text", text |-> "Internal Server Error"]

\* return PlainTextResponse("OK"), from the try block (line 323) and from
\* the except block (line 327)
CallStatusResponse(ok) == [kind |-> "text", text |-> "OK"]

\* POST /call-status (lines 305-327): await request.form() returns and the
\* status is looked at, or it raises and the except block answers
call_status(cid, status, ok) ==
    /\ CanRequest
    /\ active_calls' = IF ok /\ status \in TerminalStatuses
                       THEN Removed(active_calls, cid)
                       ELSE active_calls
    /\ http_log' = Exchange("call_status",
                            IF ok THEN cid ELSE Unread,
                            IF ok THEN status ELSE Unread,
                            None, CallStatusResponse(ok))
    /\ UNCHANGED <<conn, global_monitor, config>>

\* Config.MAX_CONCURRENT_CALLS with the environment variable unset
MAX_CONCURRENT_CALLS == 150

\* MetricsResponse with the utilization as a share of 1, not of 100.
MetricsResponse_Share ==
    [kind |-> "json",
     active_calls |-> Cardinality(active_calls),
     max_concurrent_calls |-> MAX_CONCURRENT_CALLS,
     utilization_percent |-> [num |-> Cardinality(active_calls),
                              den |-> MAX_CONCURRENT_CALLS]]

\* the body of the /metrics response (lines 333-337); utilization_percent
\* is len(active_calls) / MAX_CONCURRENT_CALLS * 100, held as a fraction
MetricsResponse ==
    [kind |-> "json",
     active_calls |-> Cardinality(active_calls),
     max_concurrent_calls |-> MAX_CONCURRENT_CALLS,
     utilization_percent |-> [num |-> Cardinality(active_calls) * 100,
                              den |-> MAX_CONCURRENT_CALLS]]

\* GET /metrics (lines 328-337)
metrics ==
    /\ CanRequest
    /\ http_log' = Exchange("metrics", None, None, None, MetricsResponse)
    /\ UNCHANGED <<active_calls, conn, global_monitor, config>>

\* the body of the / response (lines 45-49)
RootResponse ==
    [kind |-> "json", status |-> "healthy",
     service |-> "Voice Agent Webhook Server",
     active_calls |-> Cardinality(active_calls)]

\* GET / (lines 42-49)
root ==
    /\ CanRequest
    /\ http_log' = Exchange("root", None, None, None, RootResponse)
    /\ UNCHANGED <<active_calls, conn, global_monitor, config>>

\* the body of the /health response (line 55)
HealthResponse ==
    [kind |-> "json", status |-> "ok",
     active_calls |-> Cardinality(active_calls)]

\* GET /health (lines 52-55)
health ==
    /\ CanRequest
    /\ http_log' = Exchange("health", None, None, None, HealthResponse)
    /\ UNCHANGED <<active_calls, conn, global_monitor, config>>

\* ---------------------------------------------------- PerformanceMonitor

\* LatencyMetrics(session_id=session_id) (performance_monitor.py lines
\* 18-35): the id and the time of creation, which is the number of the
\* create_session call; every other field has its default
LatencyMetrics(session_id, timestamp) ==
    [session_id |-> session_id, timestamp |-> timestamp]

\* the length the history is cut to (lines 73-74)
HistoryLimit == 100

\* lst[-n:]
LastOf(lst, n) ==
    IF Len(lst) <= n THEN lst ELSE SubSeq(lst, Len(lst) - n + 1, Len(lst))

\* Archived without the cut: the history keeps every entry.
Archived_Uncut(history, m) == Append(history, m)

\* self.historical_metrics.append(m), then the cut to the last 100
\* entries if there are more (lines 70-74)
Archived(history, m) ==
    LET h == Append(history, m) IN
    IF Len(h) > HistoryLimit THEN LastOf(h, HistoryLimit) ELSE h

\* self.sessions[session_id] = m (line 63)
WithSession(sessions, session_id, m) ==
    [k \in DOMAIN sessions \cup {session_id} |->
        IF k = session_id THEN m ELSE sessions[k]]

\* self.sessions.pop(session_id) (line 69): the dict without the key
WithoutSession(sessions, session_id) ==
    [k \in DOMAIN sessions \ {session_id} |-> sessions[k]]

\* PerformanceMonitor.create_session (lines 60-64)
CreateSession(mon, session_id) ==
    LET m == LatencyMetrics(session_id, Len(mon.created) + 1) IN
    [mon EXCEPT !.sessions = WithSession(@, session_id, m),
                !.created = Append(@, session_id)]

\* EndSession with the session read and not popped: it stays active.
EndSession_NotPopped(mon, session_id) ==
    IF session_id \in DOMAIN mon.sessions
    THEN [mon EXCEPT !.historical_metrics = Archived(@, mon.sessions[session_id]),
                     !.ended = Append(@, mon.sessions[session_id])]
    ELSE mon

\* PerformanceMonitor.end_session (lines 66-74)
EndSession(mon, session_id) ==
    IF session_id \in DOMAIN mon.sessions
    THEN [mon EXCEPT !.sessions = WithoutSession(@, session_id),
                     !.historical_metrics = Archived(@, mon.sessions[session_id]),
                     !.ended = Append(@, mon.sessions[session_id])]
    ELSE mon

create_session(session_id) ==
    /\ global_monitor' = CreateSession(global_monitor, session_id)
    /\ UNCHANGED <<active_calls, conn, http_log, config>>

end_session(session_id) ==
    /\ global_monitor' = EndSession(global_monitor, session_id)
    /\ UNCHANGED <<active_calls, conn, http_log, config>>

\* ----------------------------------------------------------------- Config

\* sep.join(names)
RECURSIVE Join(_, _)
Join(names, sep) ==
    IF names = <<>> THEN <<>>
    ELSE IF Len(names) = 1 THEN names
    ELSE <<names[1], sep>> \o Join(Tail(names), sep)

\* the names of required_vars whose value is falsy, in the order of the
\* list (config.py lines 82-85)
RECURSIVE Missing(_, _)
Missing(names, attrs) ==
    IF names = <<>> THEN <<>>
    ELSE (IF ~Truthy(attrs[names[1]]) THEN <<names[1]>> ELSE <<>>)
             \o Missing(Tail(names), attrs)

\* Validate with the error naming the first missing variable only.
Validate_FirstOnly(attrs) ==
    LET missing == Missing(required_vars, attrs) IN
    IF missing # <<>>
    THEN [called |-> TRUE, raised |-> TRUE, exc |-> "ValueError",
          message |-> <<"Missing required environment variables: ", missing[1],
                        "\nPlease check your .env file.">>,
          returned |-> FALSE]
    ELSE [called |-> TRUE, raised |-> FALSE, exc |-> "none",
          message |-> <<>>, returned |-> TRUE]

\* Config.validate() (config.py lines 69-93) on the class attributes attrs:
\* the ValueError with its message, or the value True
Validate(attrs) ==
    LET missing == Missing(required_vars, attrs) IN
    IF missing # <<>>
    THEN [called |-> TRUE, raised |-> TRUE, exc |-> "ValueError",
          message |-> <<"Missing required environment variables: ">>
                          \o Join(missing, ", ")
                          \o <<"\nPlease check your .env file.">>,
          returned |-> FALSE]
    ELSE [called |-> TRUE, raised |-> FALSE, exc |-> "none",
          message |-> <<>>, returned |-> TRUE]

\* import config (config.py lines 1-102): the class body reads the
\* environment, and int() raises ValueError there for a WEBHOOK_PORT or
\* MAX_CONCURRENT_CALLS that is not an integer (lines 37, 41); then
\* Config.validate() runs inside try, and except ValueError prints the error
import_config ==
    /\ config.pc = "start"
    /\ config' =
          IF ~config.env.ints_ok
          THEN [config EXCEPT !.pc = "failed", !.import_exc = "ValueError"]
          ELSE LET r == Validate(config.env.vars) IN
               IF r.raised /\ r.exc # "ValueError"
               THEN [config EXCEPT !.pc = "failed", !.attrs = config.env.vars,
                                   !.import_exc = r.exc]
               ELSE [config EXCEPT
                        !.pc = "imported", !.attrs = config.env.vars,
                        !.printed =
                            IF r.raised
                            THEN <<"Configuration error: ">> \o r.message
                            ELSE <<"Configuration loaded successfully">>]
    /\ UNCHANGED <<active_calls, conn, http_log, global_monitor>>

\* a caller of the imported module calls Config.validate()
validate ==
    /\ config.pc = "imported"
    /\ ~config.call.called
    /\ config' = [config EXCEPT !.call = Validate(config.attrs)]
    /\ UNCHANGED <<active_calls, conn, http_log, global_monitor>>

\* ------------------------------------------------------------ specification

Next ==
    \/ \E c \in Conns, m \in WireSignals : receive_text(c, m)
    \/ \E c \in Conns : WebSocketDisconnect(c)
    \/ \E c \in Conns, ok \in BOOLEAN : connect_done(c, ok)
    \/ \E c \in Conns, ok \in BOOLEAN : publish_done(c, ok)
    \/ \E c \in Conns, ok \in BOOLEAN : capture_done(c, ok)
    \/ \E c \in Conns, ok \in BOOLEAN : disconnect_done(c, ok)
    \/ \E c \in Conns, r \in 1..MaxEvents, k \in TrackKinds : track_subscribed(c, r, k)
    \/ \E c \in Conns, t \in 1..MaxEvents, f \in RoomFrames : relay_frame(c, t, f)
    \/ \E c \in Conns, t \in 1..MaxEvents, ok \in BOOLEAN : relay_send(c, t, ok)
    \/ \E c \in Conns, t \in 1..MaxEvents : relay_end(c, t)
    \/ \E cid \in CallIds, ok \in BOOLEAN : incoming_call(cid, HomeUrl, ok)
    \/ \E cid \in CallIds, st \in {"completed", "in-progress"}, ok \in BOOLEAN :
           call_status(cid, st, ok)
    \/ metrics
    \/ root
    \/ health

Spec == Init /\ [][Next]_vars

\* A call already bridged with two remote audio tracks subscribed: the state
\* after POST /incoming-call for CA1, its start signal, room.connect and
\* publish_track returning, and two track_subscribed events.  The event
\* budget counts from here.
BridgedSession ==
    LET m  == StartSignal("MZ1", "CA1")
        s1 == OnPublished(OnConnected(Dispatch(Received(NewSession, m), m)))
        s2 == [s1 EXCEPT !.tracks = Append(@, NewTrack(s1, 1, "audio"))]
        s3 == [s2 EXCEPT !.tracks = Append(@, NewTrack(s2, 1, "audio"))]
    IN  [s3 EXCEPT !.nevents = 0]

InitBridged ==
    /\ active_calls = {"CA1"}
    /\ conn = [c \in {"ws1"} |-> BridgedSession]
    /\ http_log = Unwatched
    /\ global_monitor = NewMonitor
    /\ config = NotImported(DefaultEnv)

\* what the wire and the room deliver during the call in SpecBridged
BridgedSignals ==
    { Signal("media", "MZ1", NoStart, [shape |-> "object", payload |-> PayloadFF]),
      StopSignal, InvalidJson }

BridgedFrames ==
    { RoomFrame(8000, 1, <<1000, -1000>>),
      \* three stereo sample pairs at 12000 Hz
      RoomFrame(12000, 2, <<0, 0, 1, 2, 2, 3>>),
      RoomFrame(0, 1, <<0>>) }

\* the receive loop, the frame submissions, the relay tasks and the teardown
\* of the bridged call
NextBridged ==
    \/ \E c \in Conns, m \in BridgedSignals : receive_text(c, m)
    \/ \E c \in Conns : WebSocketDisconnect(c)
    \/ \E c \in Conns, ok \in BOOLEAN : capture_done(c, ok)
    \/ \E c \in Conns, ok \in BOOLEAN : disconnect_done(c, ok)
    \/ \E c \in Conns, t \in 1..MaxEvents, f \in BridgedFrames : relay_frame(c, t, f)
    \/ \E c \in Conns, t \in 1..MaxEvents, ok \in BOOLEAN : relay_send(c, t, ok)
    \/ \E c \in Conns, t \in 1..MaxEvents : relay_end(c, t)

SpecBridged == InitBridged /\ [][NextBridged]_vars

\* Two duplex connections at once: the bridged call CA1 on ws1 and a
\* connection just accepted on ws2, which may bring the same or another
\* call identifier, fail to connect, error or close.
InitPair ==
    /\ active_calls = {"CA1"}
    /\ conn = [c \in {"ws1", "ws2"} |->
                  IF c = "ws1" THEN BridgedSession ELSE NewSession]
    /\ http_log = Unwatched
    /\ global_monitor = NewMonitor
    /\ config = NotImported(DefaultEnv)

PairSignals == { StartSignal("MZ1", "CA1"), StartSignal("MZ2", "CA2"), BinaryFrame }

PairFrames == { RoomFrame(8000, 1, <<1000, -1000>>) }

\* the events the two connections have taken together
PairEvents == conn["ws1"].nevents + conn["ws2"].nevents

NextPair ==
    \/ \E c \in Conns, m \in PairSignals :
           PairEvents < MaxPairEvents /\ receive_text(c, m)
    \/ \E c \in Conns : WebSocketDisconnect(c)
    \/ \E c \in Conns, ok \in BOOLEAN : connect_done(c, ok)
    \/ \E c \in Conns, ok \in BOOLEAN : publish_done(c, ok)
    \/ \E c \in Conns, ok \in BOOLEAN : disconnect_done(c, ok)
    \/ \E c \in Conns, r \in 1..MaxEvents :
           PairEvents < MaxPairEvents /\ track_subscribed(c, r, "audio")
    \/ \E c \in Conns, t \in 1..MaxEvents, f \in PairFrames :
           PairEvents < MaxPairEvents /\ relay_frame(c, t, f)
    \/ \E c \in Conns, t \in 1..MaxEvents, ok \in BOOLEAN : relay_send(c, t, ok)
    \/ \E c \in Conns, t \in 1..MaxEvents : relay_end(c, t)
    \/ \E cid \in CallIds, ok \in BOOLEAN : incoming_call(cid, HomeUrl, ok)

SpecPair == InitPair /\ [][NextPair]_vars

\* Two connections just accepted and an HTTP client that is watched: the
\* sessions of two calls start and end while requests insert, remove and
\* read.
InitHttp ==
    /\ active_calls = {}
    /\ conn = [c \in {"ws1", "ws2"} |-> NewSession]
    /\ http_log = Watched
    /\ global_monitor = NewMonitor
    /\ config = NotImported(DefaultEnv)

HttpSignals == { StartSignal("MZ1", "CA1"), StartSignal("MZ2", "CA2"), StopSignal }

NextHttp ==
    \/ \E c \in Conns, m \in HttpSignals :
           PairEvents < MaxPairEvents /\ receive_text(c, m)
    \/ \E c \in Conns : WebSocketDisconnect(c)
    \/ \E c \in Conns, ok \in BOOLEAN : connect_done(c, ok)
    \/ \E c \in Conns, ok \in BOOLEAN : publish_done(c, ok)
    \/ \E c \in Conns, ok \in BOOLEAN : disconnect_done(c, ok)
    \/ \E cid \in CallIds, ok \in BOOLEAN : incoming_call(cid, HomeUrl, ok)
    \/ \E cid \in CallIds, st \in {"completed", "in-progress"} :
           call_status(cid, st, TRUE)
    \/ metrics

SpecHttp == InitHttp /\ [][NextHttp]_vars

\* One media stream and a watched client of all the HTTP endpoints: the
\* call setup with each base URL and call identifier, the status callback
\* with each status Twilio reports or with none, and the three reads.
InitEndpoints ==
    /\ active_calls = {}
    /\ conn = [c \in {"ws1"} |-> NewSession]
    /\ http_log = Watched
    /\ global_monitor = NewMonitor
    /\ config = NotImported(DefaultEnv)

CallStatuses ==
    {"queued", "initiated", "ringing", "in-progress",
     "completed", "failed", "busy", "no-answer", "canceled"}

EndpointSignals == { StartSignal("MZ1", "CA1"), StopSignal }

NextEndpoints ==
    \/ \E c \in Conns, m \in EndpointSignals : receive_text(c, m)
    \/ \E c \in Conns : WebSocketDisconnect(c)
    \/ \E c \in Conns, ok \in BOOLEAN : connect_done(c, ok)
    \/ \E c \in Conns, ok \in BOOLEAN : publish_done(c, ok)
    \/ \E c \in Conns, ok \in BOOLEAN : disconnect_done(c, ok)
    \/ \E cid \in HttpCallIds, base \in BaseUrls, ok \in BOOLEAN :
           incoming_call(cid, base, ok)
    \/ \E cid \in HttpCallIds, st \in CallStatuses \cup {None} :
           call_status(cid, st, TRUE)
    \/ call_status(None, None, FALSE)
    \/ metrics
    \/ root
    \/ health

SpecEndpoints == InitEndpoints /\ [][NextEndpoints]_vars

\* A bridged call whose room plays the caller's audio back: the session has
\* taken its start signal and one track_subscribed event, and then a media
\* signal of one companded byte, any of the 256.  The caller goes on sending
\* that chunk, and the remote track delivers the frame the room took last.
EchoSession ==
    LET m  == StartSignal("MZ1", "CA1")
        s1 == OnPublished(OnConnected(Dispatch(Received(NewSession, m), m)))
    IN  [s1 EXCEPT !.tracks = Append(@, NewTrack(s1, 1, "audio")),
                   !.nevents = @ + 1]

EchoSignal(b) ==
    Signal("media", "MZ1", NoStart,
           [shape |-> "object", payload |-> StrPayload(b64encode(<<b>>))])

InitEcho ==
    /\ active_calls = {"CA1"}
    /\ \E b \in 0..255 :
           conn = [c \in {"ws1"} |->
                     Dispatch(Received(EchoSession, EchoSignal(b)), EchoSignal(b))]
    /\ http_log = Unwatched
    /\ global_monitor = NewMonitor
    /\ config = NotImported(DefaultEnv)

\* the chunk the caller sent last, sent again
EchoSignals(s) ==
    { Signal("media", "MZ1", NoStart,
             [shape |-> "object", payload |-> s.media_log[Len(s.media_log)]]) }

EchoFrames(s) ==
    IF s.captured = <<>> THEN {}
    ELSE { RoomFrame(8000, 1, s.captured[Len(s.captured)].data) }

NextEcho ==
    \/ \E c \in Conns : \E m \in EchoSignals(conn[c]) : receive_text(c, m)
    \/ \E c \in Conns, ok \in BOOLEAN : capture_done(c, ok)
    \/ \E c \in Conns, t \in 1..MaxEvents :
           \E f \in EchoFrames(conn[c]) : relay_frame(c, t, f)
    \/ \E c \in Conns, t \in 1..MaxEvents, ok \in BOOLEAN : relay_send(c, t, ok)

SpecEcho == InitEcho /\ [][NextEcho]_vars

\* The server under load: Twilio announces one call after the other, the
\* n-th with the identifier n, no media stream is open, the call announced
\* last may end, and the utilization is read.
InitLoad ==
    /\ active_calls = {}
    /\ conn = [c \in {} |-> NewSession]
    /\ http_log = Unwatched
    /\ global_monitor = NewMonitor
    /\ config = NotImported(DefaultEnv)

LoadCallIds == 1..(MAX_CONCURRENT_CALLS + 1)

NextLoad ==
    \/ \E cid \in LoadCallIds :
           cid = Cardinality(active_calls) + 1 /\ incoming_call(cid, HomeUrl, TRUE)
    \/ \E cid \in LoadCallIds :
           cid = Cardinality(active_calls) /\ call_status(cid, "completed", TRUE)
    \/ metrics

SpecLoad == InitLoad /\ [][NextLoad]_vars

\* The monitor over a long run of sessions, one at a time, the n-th with the
\* id n (test-session-n in the module's demo): a session is created when
\* none is active, and end_session is called with any id.
InitMonitor ==
    /\ active_calls = {}
    /\ conn = [c \in {} |-> NewSession]
    /\ http_log = Unwatched
    /\ global_monitor = NewMonitor
    /\ config = NotImported(DefaultEnv)

SessionIds == 1..MaxSessions

NextMonitor ==
    \/ \E id \in SessionIds :
           /\ id = Len(global_monitor.created) + 1
           /\ DOMAIN global_monitor.sessions = {}
           /\ create_session(id)
    \/ \E id \in SessionIds : end_session(id)

SpecMonitor == InitMonitor /\ [][NextMonitor]_vars

\* The monitor with two session ids used in any order: created again while
\* active or after the end, ended while active or not.
ArchiveIds == {1, 2}

NextArchive ==
    \/ \E id \in ArchiveIds :
           Len(global_monitor.created) < MaxCreates /\ create_session(id)
    \/ \E id \in ArchiveIds : end_session(id)

SpecArchive == InitMonitor /\ [][NextArchive]_vars

\* The module config imported in any environment, and Config.validate()
\* called afterwards.
InitConfig ==
    /\ active_calls = {}
    /\ conn = [c \in {} |-> NewSession]
    /\ http_log = Unwatched
    /\ global_monitor = NewMonitor
    /\ \E env \in Envs : config = NotImported(env)

NextConfig ==
    \/ import_config
    \/ validate

SpecConfig == InitConfig /\ [][NextConfig]_vars

\* ------------------------------------------------------------------ claims

\* the session fields a wire signal can change: everything but the record of
\* what was received
Unreceived(s, old) ==
    [s EXCEPT !.nevents = old.nevents, !.nrecv = old.nrecv, !.last = old.last,
              !.media_log = old.media_log]

\* C1: every session that started and has ended has performed each teardown
\* side effect exactly once: one room.disconnect() and one removal of its
\* call identifier from active_calls.
C1_TeardownExactlyOnce ==
    \A c \in Conns :
        (conn[c].pc = "done" /\ Bridged(conn[c]) /\ Truthy(conn[c].call_sid))
            => /\ conn[c].disconnect_calls = 1
               /\ conn[c].discard_calls = 1

\* C1, the half the code keeps: no teardown side effect is performed twice.
TeardownNeverTwice ==
    \A c \in Conns :
        /\ conn[c].disconnect_calls <= 1
        /\ conn[c].discard_calls <= 1

\* C2: once a session has ended, room.disconnect() has been called on every
\* room connection it acquired.
C2_EveryRoomReleased ==
    \A c \in Conns :
        conn[c].pc = "done"
            => \A i \in 1..Len(conn[c].rooms) :
                   conn[c].rooms[i].state # "new" => conn[c].rooms[i].disconnects >= 1

\* C3: after a failure while handling a start signal the session is torn
\* down: it is not BRIDGING, the receive loop is left for good, and no frame
\* is decoded or submitted to the room afterwards.
C3_StartFailureAborts ==
    \A c \in Conns :
        conn[c].start_failed
            => /\ conn[c].pc \in {"disconnect", "done"}
               /\ SessionState(conn[c]) # "BRIDGING"
               /\ conn[c].pending = <<>>
               /\ Len(conn[c].captured) = conn[c].failed_at

C3_Witness ==
    \E c \in Conns :
        /\ conn[c].start_failed
        /\ conn[c].pc = "done"
        /\ ~Bridged(conn[c])
        /\ Len(conn[c].rooms) = 1
        /\ conn[c].rooms[1].state = "disconnected"
        /\ conn[c].nrecv >= 2

\* the transitions of the session state machine
StateStep(a, b) ==
    \/ a = b
    \/ a = "AWAITING_START" /\ b \in {"BRIDGING", "CLOSED"}
    \/ a = "BRIDGING" /\ b = "STOPPING"
    \/ a = "STOPPING" /\ b = "CLOSED"

\* C4: a session moves only along AWAITING_START -> BRIDGING -> STOPPING ->
\* CLOSED or AWAITING_START -> CLOSED; it leaves BRIDGING only on a stop
\* signal, a close or an error; and once the loop has been left no signal is
\* received, no frame is submitted and the session's locals stay as they are.
C4_StateMachine ==
    [][\A c \in Conns :
         /\ StateStep(SessionState(conn[c]), SessionState(conn'[c]))
         /\ (SessionState(conn[c]) = "BRIDGING" /\ SessionState(conn'[c]) # "BRIDGING")
                => /\ conn[c].exit_cause = "none"
                   /\ conn'[c].exit_cause \in {"stop", "disconnect", "error"}
         /\ conn[c].exit_cause # "none"
                => /\ conn'[c].pc \in {"disconnect", "done"}
                   /\ conn'[c].exit_cause = conn[c].exit_cause
                   /\ conn'[c].nrecv = conn[c].nrecv
                   /\ conn'[c].captured = conn[c].captured
                   /\ conn'[c].pending = <<>>
                   /\ conn'[c].room = conn[c].room
                   /\ conn'[c].audio_source = conn[c].audio_source]_vars

C4_Witness ==
    \E c \in Conns :
        /\ conn[c].pc = "done"
        /\ conn[c].exit_cause = "stop"
        /\ Len(conn[c].captured) >= 1
        /\ conn[c].nevents < MaxEvents

\* C5: receiving a wire signal that is not valid JSON changes nothing but
\* the count of signals received: the session's locals, rooms, tracks and
\* effects and the registry are as before, and the loop is back at
\* receive_text.
C5_InvalidJsonIgnored ==
    [][\A c \in Conns :
         (conn'[c].nrecv = conn[c].nrecv + 1 /\ conn'[c].last = "invalid_json")
             => /\ Unreceived(conn'[c], conn[c]) = conn[c]
                /\ conn'[c].pc = "recv"
                /\ active_calls' = active_calls]_vars

C5_Witness ==
    \E c \in Conns :
        /\ conn[c].last = "invalid_json"
        /\ SessionState(conn[c]) = "BRIDGING"
        /\ Len(conn[c].captured) >= 1

\* C6: right after a malformed media signal arrived in BRIDGING the session
\* is still BRIDGING and back at receive_text.
C6_MalformedMediaDropped ==
    \A c \in Conns :
        (conn[c].last = "bad_media" /\ Bridged(conn[c]))
            => /\ SessionState(conn[c]) = "BRIDGING"
               /\ conn[c].pc = "recv"

\* C7: while a frame submission has not completed, the receive loop can take
\* the next wire signal.
C7_SubmitDoesNotBlock ==
    \A c \in Conns :
        (conn[c].pending # <<>> /\ conn[c].nevents < MaxEvents)
            => ENABLED (\E m \in WireSignals : receive_text(c, m))

\* C8: the ingress drop counter equals the number of frames the room port
\* did not take, and a drop leaves the session BRIDGING.
C8_DropsCounted ==
    \A c \in Conns :
        /\ conn[c].drop_counter = conn[c].capture_errors
        /\ (conn[c].capture_errors > 0 /\ conn[c].exit_cause = "none")
               => SessionState(conn[c]) = "BRIDGING"

\* the frames the valid media signals received so far decode to
ExpectedFrames(s) ==
    [i \in 1..Len(s.media_log) |-> ulaw2lin(b64decode(s.media_log[i]).data)]

\* C9: as long as the room port has taken every frame, the frames submitted
\* to the synthetic track are the decoded valid media signals received in
\* BRIDGING, one per signal and in arrival order (the last one may still be
\* in capture_frame), and nothing was dropped.
C9_IngressInOrder ==
    \A c \in Conns :
        conn[c].capture_errors = 0
            => LET s == conn[c]
                   e == ExpectedFrames(s)
                   got == [i \in 1..Len(s.captured) |-> s.captured[i].data]
               IN  IF s.pending # <<>>
                   THEN /\ Len(e) = Len(got) + 1
                        /\ SubSeq(e, 1, Len(got)) = got
                        /\ e[Len(e)] = s.pending
                   ELSE e = got

C9_Witness ==
    \E c \in Conns :
        /\ conn[c].capture_errors = 0
        /\ Len(conn[c].captured) = 3
        /\ conn[c].captured[1].data # conn[c].captured[2].data
        /\ conn[c].captured[2].data = conn[c].captured[3].data

\* a step in which relay task t of connection c failed on a frame: a stage
\* raised on the frame just taken, or send_text raised
FrameFailed(c, t) ==
    /\ t <= Len(conn[c].tracks)
    /\ conn'[c].tracks[t].skipped = conn[c].tracks[t].skipped + 1

\* C10: a failure of a relay task on one room frame skips that frame only:
\* the task is back at its async for, nothing is written for the frame, and
\* the session's receive loop, locals and rooms are as before.
C10_FrameErrorSkipsFrame ==
    [][\A c \in Conns : \A t \in 1..MaxEvents :
         FrameFailed(c, t)
             => /\ conn'[c].tracks[t].task = "iter"
                /\ conn'[c].outbound = conn[c].outbound
                /\ [conn'[c] EXCEPT !.tracks = conn[c].tracks,
                                    !.nevents = conn[c].nevents] = conn[c]]_vars

C10_Witness ==
    \E c \in Conns : \E t \in 1..Len(conn[c].tracks) :
        /\ conn[c].tracks[t].skipped = 1
        /\ conn[c].tracks[t].consumed = 2
        /\ \E i \in 1..Len(conn[c].outbound) :
               conn[c].outbound[i].track = t /\ conn[c].outbound[i].frame = 2
        /\ SessionState(conn[c]) = "BRIDGING"

\* C11: when a relay task resamples two consecutive frames of one format,
\* the state the second ratecv call is given is the state the first one
\* returned, and the two outputs joined are the output of resampling the
\* two frames joined.
C11_ResampleStateCarried ==
    [][\A c \in Conns : \A t \in 1..MaxEvents :
         (/\ t <= Len(conn[c].tracks)
          /\ conn'[c].tracks[t].consumed = conn[c].tracks[t].consumed + 1
          /\ conn[c].tracks[t].ratecv_call # <<>>
          /\ conn'[c].tracks[t].ratecv_call # <<>>)
             => LET a == conn[c].tracks[t].ratecv_call[1]
                    b == conn'[c].tracks[t].ratecv_call[1]
                IN  (/\ a.res.ok /\ b.res.ok
                     /\ a.frame.sample_rate = b.frame.sample_rate
                     /\ a.frame.num_channels = b.frame.num_channels)
                        => /\ b.state_in = a.res.state
                           /\ a.res.data \o b.res.data =
                                  ratecv(a.frame.data \o b.frame.data,
                                         a.frame.num_channels,
                                         a.frame.sample_rate, 8000,
                                         NoState).data]_vars

\* C12: once a session is CLOSED none of its relay tasks does anything
\* more: no task takes another room frame and nothing more is written to
\* the socket.
C12_ClosedStopsRelays ==
    [][\A c \in Conns :
         conn[c].pc = "done"
             => /\ conn'[c].outbound = conn[c].outbound
                /\ \A t \in 1..Len(conn[c].tracks) :
                       conn'[c].tracks[t].consumed = conn[c].tracks[t].consumed]_vars

\* C12, the half the code keeps: nothing is written to the socket of a
\* CLOSED session.
ClosedWritesNothing ==
    [][\A c \in Conns :
         conn[c].pc = "done" => conn'[c].outbound = conn[c].outbound]_vars

\* C13: the signals one track has on the socket are in the order its frames
\* were taken, whatever else was written between them.
C13_PerTrackOrder ==
    \A c \in Conns :
        \A i, j \in 1..Len(conn[c].outbound) :
            (i < j /\ conn[c].outbound[i].track = conn[c].outbound[j].track)
                => conn[c].outbound[i].frame < conn[c].outbound[j].frame

C13_Witness ==
    \E c \in Conns :
        /\ Len(conn[c].outbound) = 3
        /\ conn[c].outbound[1].track = 1
        /\ conn[c].outbound[2].track = 2
        /\ conn[c].outbound[3].track = 1
        /\ conn[c].tracks[1].skipped = 1
        /\ conn[c].outbound[3].frame = 3

\* C14: every media signal on a session's socket carries the session's
\* stream identifier, the one its start signal brought.
C14_OutboundCarriesStreamSid ==
    \A c \in Conns :
        \A i \in 1..Len(conn[c].outbound) :
            conn[c].outbound[i].msg.streamSid = conn[c].stream_sid

\* a relay task that can still take frames: it has not returned and the
\* room of its track is still connected
RelayLive(s, t) ==
    /\ s.tracks[t].task \in {"iter", "send"}
    /\ s.rooms[s.tracks[t].room].state = "connected"

\* C15: no relay task outlives its session: a CLOSED session has no relay
\* task that can still take frames.
C15_RelayBoundedBySession ==
    \A c \in Conns :
        conn[c].pc = "done"
            => \A t \in 1..Len(conn[c].tracks) : ~RelayLive(conn[c], t)

\* the call identifiers of the sessions that have started and not closed
StartedCalls ==
    { conn[c].call_sid : c \in { d \in Conns :
          SessionState(conn[d]) \in {"BRIDGING", "STOPPING"} } }

\* C16: at every moment active_calls is the set of call identifiers whose
\* session has started and not yet closed.
C16_RegistryIsStartedSessions ==
    active_calls = StartedCalls

\* C17: when the start signal of call CA1 has been handled, whatever came
\* before it, active_calls has the entry CA1.
C17_StartRegistersCall ==
    [][\A c \in Conns :
         (/\ SessionState(conn[c]) = "AWAITING_START"
          /\ SessionState(conn'[c]) = "BRIDGING"
          /\ conn'[c].call_sid = "CA1")
             => "CA1" \in active_calls']_vars

\* C18: on every step that takes a started session from STOPPING to CLOSED,
\* whether or not room.disconnect() succeeded, the session's call identifier
\* is not in active_calls afterwards.
C18_ClosedLeavesRegistry ==
    [][\A c \in Conns :
         (/\ SessionState(conn[c]) = "STOPPING"
          /\ SessionState(conn'[c]) = "CLOSED")
             => conn'[c].call_sid \notin active_calls']_vars

\* a step of session c at or after its fatal error: the failure itself
\* (room connect or publish raising, a receive error, the peer closing) or
\* a step of the teardown that follows
FatalStep(c) ==
    /\ conn'[c] # conn[c]
    /\ conn'[c].exit_cause \in {"error", "disconnect"}

\* what a relay task of session c wrote in this step, if it wrote: the
\* signal it had built from its own track's frame
OwnAudioOnly(c) ==
    Len(conn'[c].outbound) > Len(conn[c].outbound)
        => LET e == conn'[c].outbound[Len(conn'[c].outbound)]
           IN  /\ e.track \in 1..Len(conn[c].tracks)
               /\ e.msg = conn[c].tracks[e.track].msg
               /\ conn[c].tracks[e.track].task = "send"

SessionRemovals ==
    { conn'[c].call_sid : c \in { d \in Conns :
          conn'[d].discard_calls > conn[d].discard_calls } }

\* C20: every step writes the registry as one whole operation on the state
\* the registry is in: an insertion adds its identifier and keeps the rest,
\* a removal (by a request or by a session ending) takes its identifier out
\* and keeps the rest, nothing else changes it, and a metrics read returns
\* the size the registry has at that moment.
C20_RegistryWritesWhole ==
    [][IF http_log'.n = http_log.n + 1
       THEN CASE http_log'.op = "incoming_call" ->
                   active_calls' = IF http_log'.response.kind = "twiml"
                                   THEN active_calls \cup {http_log'.cid}
                                   ELSE active_calls
              [] http_log'.op = "call_status" ->
                   active_calls' = IF http_log'.status \in TerminalStatuses
                                   THEN active_calls \ {http_log'.cid}
                                   ELSE active_calls
              [] http_log'.op = "metrics" ->
                   /\ active_calls' = active_calls
                   /\ http_log'.response.active_calls = Cardinality(active_calls)
       ELSE active_calls' = active_calls \ SessionRemovals]_vars

C20_Witness ==
    /\ http_log.n = 3
    /\ http_log.op = "metrics"
    /\ http_log.response.active_calls = 1
    /\ active_calls = {"CA2"}
    /\ \E c \in Conns :
           /\ conn[c].pc = "done"
           /\ conn[c].call_sid = "CA1"
           /\ conn[c].discard_calls = 1
    /\ \E c \in Conns :
           /\ SessionState(conn[c]) = "BRIDGING"
           /\ conn[c].call_sid = "CA2"

\* C21: a session attempts room.connect at most once, and after a failed
\* attempt it is tearing down or closed.
C21_ConnectAtMostOnce ==
    \A c \in Conns :
        /\ conn[c].connect_calls <= 1
        /\ conn[c].start_failed => conn[c].pc \in {"disconnect", "done"}

\* C21, the half the code keeps: once a start has failed, room.connect is
\* not called again.
FailedConnectNotRetried ==
    [][\A c \in Conns :
         conn[c].start_failed
             => conn'[c].connect_calls = conn[c].connect_calls]_vars

\* the quantization step of the segment the companded byte b lies in, on
\* the 16-bit scale of ulaw2lin
MuLawStep(b) == 8 * Pow2(((255 - b) \div 16) % 8)

Abs(v) == IF v < 0 THEN -v ELSE v

\* C22: a companded byte that went through the ingress decompanding and
\* comes back through the egress companding is a byte whose decoded value
\* is within one quantization step of the original's decoded value.
C22_RoundTripWithinStep ==
    [][\A c \in Conns : \A t \in 1..Len(conn[c].tracks) :
         (/\ conn'[c].tracks[t].consumed = conn[c].tracks[t].consumed + 1
          /\ Len(conn[c].captured) >= 1 /\ Len(conn[c].media_log) >= 1)
             => LET orig == b64decode(conn[c].media_log[Len(conn[c].media_log)]).data
                    back == b64decode(StrPayload(conn'[c].tracks[t].msg.payload)).data
                IN  /\ conn'[c].tracks[t].task = "send"
                    /\ Len(back) = Len(orig)
                    /\ \A k \in 1..Len(orig) :
                           Abs(ulaw2lin_sample(back[k]) - ulaw2lin_sample(orig[k]))
                               <= MuLawStep(orig[k])]_vars

C22_Witness ==
    \E c \in Conns :
        /\ Len(conn[c].outbound) = 1
        /\ Len(conn[c].media_log) = 1
        /\ b64decode(conn[c].media_log[1]).data = <<127>>
        /\ b64decode(StrPayload(conn[c].outbound[1].msg.payload)).data = <<255>>

\* 20 ms at 8000 Hz mono
WireChunkSamples == 160

\* C23: every media signal a relay task wrote carries 160 companded
\* samples, and every frame submitted to the room holds 160 samples.
C23_WireChunksAre20ms ==
    \A c \in Conns :
        /\ \A i \in 1..Len(conn[c].outbound) :
               Len(b64decode(StrPayload(conn[c].outbound[i].msg.payload)).data)
                   = WireChunkSamples
        /\ \A j \in 1..Len(conn[c].captured) :
               Len(conn[c].captured[j].data) = WireChunkSamples

\* the mean of each left/right pair of an interleaved stereo fragment
AveragedPairs(data) ==
    [i \in 1..(Len(data) \div 2) |-> (data[2 * i - 1] + data[2 * i]) \div 2]

\* C24: the signal a relay task builds from a stereo frame (taken at the
\* wire rate, so that nothing but the fold and the companding is applied)
\* is the companded mean of each left/right pair.
C24_StereoFoldAverages ==
    \A c \in Conns : \A t \in 1..Len(conn[c].tracks) :
        LET tr == conn[c].tracks[t] IN
        (/\ tr.task = "send"
         /\ tr.taken # <<>>
         /\ tr.taken[1].num_channels = 2
         /\ tr.taken[1].sample_rate = 8000)
            => tr.msg.payload = b64encode(lin2ulaw(AveragedPairs(tr.taken[1].data)))

\* How an XML parser reads the text between the quotes of an attribute:
\* the characters <, & and " cannot stand there as they are, and a document
\* that has them is not well-formed.
AttrValue(text) ==
    [ok |-> \A i \in 1..Len(text) : text[i] \notin {"<", "&", "\""},
     value |-> text]

\* the WebSocket URL of a base URL: ws for http, wss for https, the same
\* host, the path /media-stream
WebSocketUrl(base) ==
    (IF base.scheme = <<"h", "t", "t", "p", "s">>
     THEN <<"w", "s", "s">> ELSE <<"w", "s">>)
        \o <<":", "/", "/">> \o base.netloc
        \o <<"/", "m", "e", "d", "i", "a", "-", "s", "t", "r", "e", "a", "m">>

\* C25: the response of the call-setup endpoint for a call identifier has a
\* Stream whose url is the WebSocket URL of the request's base URL, a
\* callSid parameter that reads as the call identifier and a roomName
\* parameter that reads as "call-" followed by it.
C25_SetupResponse ==
    (http_log.op = "incoming_call" /\ http_log.response.kind = "twiml")
        => LET r == http_log.response IN
           /\ AttrValue(r.url).ok
           /\ AttrValue(r.url).value = WebSocketUrl(http_log.base)
           /\ AttrValue(r.callSid).ok
           /\ AttrValue(r.callSid).value = Text(http_log.cid)
           /\ AttrValue(r.roomName).ok
           /\ AttrValue(r.roomName).value
                  = <<"c", "a", "l", "l", "-">> \o Text(http_log.cid)

\* C25 for the requests the code answers as the claim says: a host name
\* without "http" in it and an identifier of characters XML leaves alone.
SetupResponsePlain ==
    (/\ http_log.op = "incoming_call" /\ http_log.response.kind = "twiml"
     /\ http_log.cid \in CallIds
     /\ http_log.base.netloc = <<"a", ".", "i", "o">>)
        => LET r == http_log.response IN
           /\ AttrValue(r.url).ok
           /\ AttrValue(r.url).value = WebSocketUrl(http_log.base)
           /\ AttrValue(r.callSid).ok
           /\ AttrValue(r.callSid).value = Text(http_log.cid)
           /\ AttrValue(r.roomName).ok
           /\ AttrValue(r.roomName).value
                  = <<"c", "a", "l", "l", "-">> \o Text(http_log.cid)

\* a step that is the watched client's request to the endpoint op
Served(op) == http_log'.n = http_log.n + 1 /\ http_log'.op = op

\* C26: a call-status callback takes the call identifier out of the registry
\* exactly when its status is completed, failed, busy, no-answer or
\* canceled; with any other status the registry is as it was, an absent
\* identifier changes nothing, and every other entry stays.
C26_StatusCallbackEffect ==
    [][Served("call_status") =>
          LET cid == http_log'.cid
              ended == http_log'.status \in
                  {"completed", "failed", "busy", "no-answer", "canceled"}
          IN  /\ ended => active_calls' = active_calls \ {cid}
              /\ ~ended => active_calls' = active_calls
              /\ cid \notin active_calls => active_calls' = active_calls
              /\ \A other \in HttpCallIds \ {cid} :
                     other \in active_calls' <=> other \in active_calls]_vars

\* the callback for a canceled call found its identifier and another one in
\* the registry and left the other one
C26_Witness ==
    /\ http_log.op = "call_status"
    /\ http_log.status = "canceled"
    /\ http_log.cid \in http_log.found
    /\ http_log.found \ {http_log.cid} # {}
    /\ active_calls = http_log.found \ {http_log.cid}

\* a callback with a status that does not end the call found its identifier
\* in the registry, and it is still there
StatusCallbackKeeps ==
    /\ http_log.op = "call_status"
    /\ http_log.status = "in-progress"
    /\ http_log.cid \in http_log.found
    /\ active_calls = http_log.found

\* C27: a request to /, /health or /metrics leaves the registry and every
\* session as they were, and its response reports active_calls as the size
\* of the registry; the /metrics response also reports utilization_percent
\* as that size / max_concurrent_calls * 100.
C27_ReadsAreReadOnly ==
    [][(Served("root") \/ Served("health") \/ Served("metrics")) =>
          LET r == http_log'.response IN
          /\ active_calls' = active_calls
          /\ conn' = conn
          /\ r.active_calls = Cardinality(active_calls)
          /\ Served("metrics") =>
                 /\ r.max_concurrent_calls = MAX_CONCURRENT_CALLS
                 /\ r.utilization_percent.num * r.max_concurrent_calls
                        = Cardinality(active_calls) * 100 * r.utilization_percent.den]_vars

\* /metrics was read while two calls were registered and a media stream was
\* past its start signal
C27_Witness ==
    /\ http_log.op = "metrics"
    /\ Cardinality(http_log.found) = 2
    /\ active_calls = http_log.found
    /\ http_log.response.active_calls = 2
    /\ http_log.response.utilization_percent.num = 200
    /\ \E c \in Conns : conn[c].call_sid # None

\* / and /health were read with a call registered
ReadsWitness ==
    /\ http_log.op \in {"root", "health"}
    /\ http_log.found # {}
    /\ http_log.response.active_calls = Cardinality(active_calls)

\* C28: the setup on a start signal goes in the order derive, connect,
\* publish, register: while room.connect is awaited the room has its name
\* and identity and nothing later has happened; while publish_track is
\* awaited the room is connected and neither published nor handled; a room
\* with the handler has its track published, and a published one is
\* connected; and every frame submitted, or being submitted, went to the
\* source of a published track.
C28_SetupInOrder ==
    \A c \in Conns :
        LET s == conn[c] IN
        /\ \A i \in 1..Len(s.rooms) :
               /\ s.rooms[i].handler => s.rooms[i].published
               /\ s.rooms[i].published => s.rooms[i].state # "new"
        /\ s.pc = "connect"
               => /\ s.room = Len(s.rooms)
                  /\ s.rooms[s.room].name = s.room_name
                  /\ s.rooms[s.room].state = "new"
                  /\ ~s.rooms[s.room].published
                  /\ ~s.rooms[s.room].handler
        /\ s.pc = "publish"
               => /\ s.rooms[s.room].state = "connected"
                  /\ ~s.rooms[s.room].published
                  /\ ~s.rooms[s.room].handler
        /\ \A k \in 1..Len(s.captured) : s.rooms[s.captured[k].source].published
        /\ s.pc = "capture" => s.rooms[s.audio_source].published

\* a session went through the whole setup and then submitted a frame
C28_Witness ==
    \E c \in Conns :
        /\ Len(conn[c].rooms) = 1
        /\ conn[c].rooms[1].state = "connected"
        /\ conn[c].rooms[1].handler
        /\ conn[c].rooms[1].name = "call-CA1"
        /\ Len(conn[c].captured) >= 1
        /\ conn[c].captured[1].source = 1

\* the frames the relay tasks had in hand when they resampled or wrote
TakenFrames ==
    { <<c, t>> \in Conns \X (1..MaxEvents) :
          t <= Len(conn[c].tracks) /\ conn[c].tracks[t].taken # <<>> }

\* C29: the egress relay folds, then resamples, then compands, then writes:
\* every ratecv call is made on one channel of data.
C29_FoldBeforeResample ==
    \A p \in TakenFrames :
        LET tr == conn[p[1]].tracks[p[2]] IN
        tr.ratecv_call # <<>> => tr.ratecv_call[1].nchannels = 1

\* The order the stages have: the ratecv call is made on the frame's data
\* with the frame's channel count, and the signal a task is writing is the
\* frame resampled, then folded, then companded, then encoded.
C29_ResampleBeforeFold ==
    \A p \in TakenFrames :
        LET tr == conn[p[1]].tracks[p[2]]
            f  == tr.taken[1]
            rs == IF f.sample_rate # 8000
                  THEN ratecv(f.data, f.num_channels, f.sample_rate, 8000, NoState).data
                  ELSE f.data
            mn == IF f.num_channels = 2 THEN tomono(rs, 1, 1).data ELSE rs
        IN  /\ tr.ratecv_call # <<>>
                => tr.ratecv_call[1].nchannels = f.num_channels
            /\ tr.task = "send"
                => tr.msg.payload = b64encode(lin2ulaw(mn))

\* a task is writing the signal of a stereo frame it had to resample
C29_Witness ==
    \E p \in TakenFrames :
        LET tr == conn[p[1]].tracks[p[2]] IN
        /\ tr.task = "send"
        /\ tr.taken[1].num_channels = 2
        /\ tr.taken[1].sample_rate # 8000
        /\ tr.ratecv_call # <<>>
        /\ tr.ratecv_call[1].nchannels = 2

\* C30: only a track of kind audio gets a relay task: a subscribed track of
\* another kind has no task, takes no frame and has no signal written or
\* about to be written.
C30_RelayOnlyForAudio ==
    \A c \in Conns : \A t \in 1..Len(conn[c].tracks) :
        LET tr == conn[c].tracks[t] IN
        /\ tr.task # "none" => tr.kind = "audio"
        /\ tr.kind # "audio"
               => /\ tr.task = "none"
                  /\ tr.consumed = 0
                  /\ tr.msg = <<>>
                  /\ \A i \in 1..Len(conn[c].outbound) : conn[c].outbound[i].track # t

\* the handler of a bridged session heard a video track and then an audio
\* track, and only the audio track's task wrote a signal
C30_Witness ==
    \E c \in Conns :
        /\ Len(conn[c].tracks) = 2
        /\ conn[c].tracks[1].kind = "video"
        /\ conn[c].rooms[conn[c].tracks[1].room].handler
        /\ conn[c].tracks[1].task = "none"
        /\ conn[c].tracks[2].kind = "audio"
        /\ Len(conn[c].outbound) = 1
        /\ conn[c].outbound[1].track = 2

\* C31: every audio track subscribed in a room the session holds has a relay
\* task, also a track subscribed while room.connect or publish_track is
\* still awaited.
C31_EveryAudioTrackRelayed ==
    \A c \in Conns : \A t \in 1..Len(conn[c].tracks) :
        conn[c].tracks[t].kind = "audio" => conn[c].tracks[t].task # "none"

\* C31 for the tracks subscribed once the handler is registered
AudioTrackRelayedAfterSetup ==
    [][\A c \in Conns :
         (/\ Len(conn'[c].tracks) = Len(conn[c].tracks) + 1
          /\ conn'[c].tracks[Len(conn'[c].tracks)].kind = "audio"
          /\ conn[c].rooms[conn'[c].tracks[Len(conn'[c].tracks)].room].handler)
             => conn'[c].tracks[Len(conn'[c].tracks)].task = "iter"]_vars

\* the rooms of session s that are connected, and those with a published
\* synthetic track
ConnectedRooms(s) == { i \in 1..Len(s.rooms) : s.rooms[i].state = "connected" }

PublishedRooms(s) == { i \in 1..Len(s.rooms) : s.rooms[i].published }

\* C32: a session holds at most one room connection and has published at
\* most one synthetic track, and the room its teardown disconnects is the
\* only one it ever connected.
C32_OneRoomPerSession ==
    \A c \in Conns :
        /\ Cardinality(ConnectedRooms(conn[c])) <= 1
        /\ Cardinality(PublishedRooms(conn[c])) <= 1
        /\ \A i \in 1..Len(conn[c].rooms) :
               conn[c].rooms[i].state # "new" => i = conn[c].room

\* the wire signals that are JSON of the wrong shape: the top-level value is
\* not an object, or the start or media field is not an object
WrongShapeSignals ==
    { m \in WireSignals :
          \/ m.kind = "scalar_json"
          \/ m.kind = "object" /\ m.event = "start" /\ m.start.shape = "scalar"
          \/ m.kind = "object" /\ m.event = "media" /\ m.media.shape = "scalar" }

\* C33: a wire signal of the wrong shape is dropped: the session is in the
\* state it was in, back at receive_text, and has not left its loop.
C33_WrongShapeDropped ==
    [][\A c \in Conns : \A m \in WrongShapeSignals :
         receive_text(c, m)
             => /\ SessionState(conn'[c]) = SessionState(conn[c])
                /\ conn'[c].pc = "recv"
                /\ conn'[c].exit_cause = "none"]_vars

\* the wire signals whose event is none of start, media, stop
UnknownSignals ==
    { m \in WireSignals :
          m.kind = "object" /\ m.event \notin {"start", "media", "stop"} }

\* the wire signals session s ignores: those of an unknown event and, as
\* long as no start signal has arrived, every media signal
IgnoredSignals(s) ==
    IF s.stream_sid = "unbound"
    THEN UnknownSignals \cup MediaSignals
    ELSE UnknownSignals

\* C34: a media signal that arrives before any start signal, and a signal of
\* an unknown event type, change nothing but the count of what was received:
\* no frame is submitted, no room is touched, the registry and the session's
\* state are as before.
C34_IgnoredSignalsChangeNothing ==
    [][\A c \in Conns :
         conn'[c].nrecv = conn[c].nrecv + 1
             => \A m \in IgnoredSignals(conn[c]) :
                    receive_text(c, m)
                        => /\ Unreceived(conn'[c], conn[c]) = conn[c]
                           /\ SessionState(conn'[c]) = SessionState(conn[c])
                           /\ active_calls' = active_calls]_vars

\* a decodable media signal arrived on a connection that has had no start
\* signal, after another signal, and the session is still waiting for start
\* with nothing submitted
C34_Witness ==
    \E c \in Conns :
        /\ conn[c].last = "media"
        /\ conn[c].nrecv >= 2
        /\ conn[c].stream_sid = "unbound"
        /\ conn[c].pc = "recv"
        /\ conn[c].rooms = <<>>
        /\ conn[c].captured = <<>>
        /\ conn[c].pending = <<>>

\* C35: a stop signal or a close that arrives before any start signal ends
\* the session at once, with no room ever created, connected or
\* disconnected, and with the registry as it was.
C35_EndBeforeStart ==
    [][\A c \in Conns :
         (/\ conn[c].stream_sid = "unbound"
          /\ receive_text(c, StopSignal) \/ WebSocketDisconnect(c))
             => /\ conn'[c].pc = "done"
                /\ conn'[c].rooms = <<>>
                /\ conn'[c].connect_calls = 0
                /\ conn'[c].disconnect_calls = 0
                /\ conn'[c].discard_calls = 0
                /\ active_calls' = active_calls]_vars

\* a connection that never had a start signal got a stop signal after
\* another signal, while a call was registered, and is closed
C35_Witness ==
    \E c \in Conns :
        /\ conn[c].exit_cause = "stop"
        /\ conn[c].stream_sid = "unbound"
        /\ conn[c].nrecv >= 2
        /\ conn[c].pc = "done"
        /\ conn[c].disconnect_calls = 0
        /\ active_calls # {}

\* the same for a close
EndBeforeStartByClose ==
    \E c \in Conns :
        /\ conn[c].exit_cause = "disconnect"
        /\ conn[c].stream_sid = "unbound"
        /\ conn[c].pc = "done"
        /\ conn[c].disconnect_calls = 0
        /\ active_calls # {}

\* C36: the registry never has more than MAX_CONCURRENT_CALLS entries, and
\* the utilization_percent that /metrics reports is between 0 and 100.
C36_RegistryWithinCapacity ==
    /\ Cardinality(active_calls) <= MAX_CONCURRENT_CALLS
    /\ MetricsResponse.utilization_percent.num >= 0
    /\ MetricsResponse.utilization_percent.num
           <= 100 * MetricsResponse.utilization_percent.den

\* C37: every call-status callback is answered with the plain text OK,
\* whatever its status and also when reading the request raises, and the
\* registry afterwards is the one before, with or without the callback's
\* call identifier.
C37_StatusCallbackAnswersOK ==
    [][Served("call_status") =>
          /\ http_log'.response = [kind |-> "text", text |-> "OK"]
          /\ \/ active_calls' = active_calls
             \/ active_calls' = active_calls \ {http_log'.cid}]_vars

\* a callback whose form could not be read was answered while calls were
\* registered, and they still are
C37_Witness ==
    /\ http_log.op = "call_status"
    /\ http_log.status = Unread
    /\ http_log.response.text = "OK"
    /\ http_log.found # {}
    /\ active_calls = http_log.found

\* C38: the history has at most 100 entries, and they are the metrics of the
\* sessions ended last, in the order they were ended.
C38_HistoryIsLastHundred ==
    /\ Len(global_monitor.historical_metrics) <= 100
    /\ global_monitor.historical_metrics = LastOf(global_monitor.ended, 100)

\* 102 sessions were ended, and the history begins with the third
C38_Witness ==
    /\ Len(global_monitor.ended) = 102
    /\ Len(global_monitor.historical_metrics) = 100
    /\ global_monitor.historical_metrics[1].session_id = 3
    /\ global_monitor.historical_metrics[100].session_id = 102

\* how often id occurs in a sequence of session ids, and in a sequence of
\* metrics
TimesCreated(id) ==
    Cardinality({ i \in 1..Len(global_monitor.created) :
                      global_monitor.created[i] = id })

TimesArchived(id) ==
    Cardinality({ i \in 1..Len(global_monitor.ended) :
                      global_monitor.ended[i].session_id = id })

\* C39: end_session(id) for an active id takes it out of the active
\* sessions, leaves the others, and puts its metrics last in the history,
\* behind the entries that were there; for an id that is not active it
\* changes nothing; so no id is archived more often than it was created.
C39_EndSessionEffect ==
    [][\A id \in ArchiveIds :
         /\ TimesArchived(id) <= TimesCreated(id)
         /\ end_session(id)
                => LET old == global_monitor
                       new == global_monitor'
                   IN  IF id \in DOMAIN old.sessions
                       THEN /\ DOMAIN new.sessions = DOMAIN old.sessions \ {id}
                            /\ \A k \in DOMAIN new.sessions :
                                   new.sessions[k] = old.sessions[k]
                            /\ new.historical_metrics
                                   = Append(old.historical_metrics, old.sessions[id])
                       ELSE /\ new.sessions = old.sessions
                            /\ new.historical_metrics = old.historical_metrics]_vars

\* an id was created twice and archived twice, the second time while the
\* other id was active, and it is not active now
C39_Witness ==
    /\ Len(global_monitor.historical_metrics) = 2
    /\ global_monitor.historical_metrics[1].session_id = 1
    /\ global_monitor.historical_metrics[2].session_id = 1
    /\ DOMAIN global_monitor.sessions = {2}

\* the required variables that are unset or empty in the environment the
\* module was imported in
UnsetOrEmpty ==
    { v \in RequiredNames : config.env.vars[v] = None \/ config.env.vars[v] = "" }

\* the text names the variable v
Names(text, v) == \E i \in 1..Len(text) : text[i] = v

\* C40: Config.validate() raises exactly when one of the seven required
\* variables is unset or empty, its error then names every such variable
\* and no other, and otherwise it returns True; and the import of the module
\* in which the validation ran did not end with that error.
C40_ValidateNamesMissing ==
    /\ config.call.called
           => /\ config.call.raised <=> UnsetOrEmpty # {}
              /\ config.call.raised
                     => \A v \in RequiredNames :
                            Names(config.call.message, v) <=> v \in UnsetOrEmpty
              /\ ~config.call.raised => config.call.returned
    /\ (config.pc # "start" /\ config.env.ints_ok)
           => /\ config.pc = "imported"
              /\ config.import_exc = "none"
              /\ UnsetOrEmpty # {}
                     => \A v \in UnsetOrEmpty : Names(config.printed, v)

\* the module was imported with one required variable unset and another
\* empty, the import printed the error, and a later Config.validate()
\* raised naming the two
C40_Witness ==
    /\ config.pc = "imported"
    /\ config.call.raised
    /\ config.env.vars["TWILIO_AUTH_TOKEN"] = None
    /\ config.env.vars["OPENAI_API_KEY"] = ""
    /\ Cardinality(UnsetOrEmpty) = 2
    /\ Names(config.call.message, "TWILIO_AUTH_TOKEN")
    /\ Names(config.call.message, "OPENAI_API_KEY")

\* with all seven set, Config.validate() returned True
ValidateReturnsTrue ==
    /\ config.call.called
    /\ config.call.returned
    /\ UnsetOrEmpty = {}

====
